---- MODULE Spec2Model ----
(***************************************************************************)
(* Model of the knowledge-base retrieval engine RAGService                 *)
(* (src/src/services/rag-service.js) and of its caller toggleRag           *)
(* (src/src/chatbot.js).                                                   *)
(*                                                                         *)
(* The engine runs on a single-threaded event loop: an action of the model *)
(* is one synchronous run of code, from the resumption of an await (or     *)
(* from the call) up to the next await.  Successive awaits between which   *)
(* the code touches no engine state (readFile, createDocuments,            *)
(* fromDocuments) are one suspension.                                      *)
(***************************************************************************)
EXTENDS Integers, Sequences, FiniteSets, TLC

\* Knowledge-base names (file basenames); "none" stands for null.
Names == {"a", "b"}
None == "none"
Modes == {"single", "multi"}

\* Query texts: empty, whitespace only, and a proper question.
Texts == {"", "  ", "hi"}

\* Similarity scores in tenths: below, at and above the threshold.
Scores == {6, 7, 8}
\* config.maxRetrievedDocs and config.minRelevanceScore (in tenths) of the
\* engine the application constructs.
maxRetrievedDocs == 2
minRelevanceScore == 7

\* Number of addKnowledgeBase calls that may be in flight together.
MaxAdds == 2
\* Cap on the number of fs.writeFile calls in flight that nobody awaits.
MaxPendingWrites == 2
\* Number of calls the engine's callers make in one run of the process.
MaxCalls == 3
\* How many times the process may end and be started again.
MaxCrashes == 1

\* How many listeners are registered with one EventEmitter, and how many
\* times it emits.
MaxListeners == 3

MaxEmits == 2

AddIds == 1..MaxAdds
\* Directories a file given to addKnowledgeBase may be in.
Dirs == {1, 2}

VARIABLES
    _enabled,                       \* this._enabled
    _mode,                          \* this._mode
    currentKnowledgeBase,           \* this.currentKnowledgeBase
    userKnowledgeBases,             \* Map, as the sequence of its entries in insertion order
    systemKnowledgeBases,           \* Map, as the sequence of its entries in insertion order
    _systemKnowledgeBasesLoaded,    \* this._systemKnowledgeBasesLoaded
    _loadingSystemKnowledgeBases,   \* this._loadingSystemKnowledgeBases
    stateFile,                      \* content of rag-state.json
    kbDir,                          \* the knowledge-base directory on disk
    loadStatePc,                    \* position of the constructor's _loadState()
    pendingWrites,                  \* snapshots of _saveState() calls nobody awaits
    loader,                         \* the running _loadSystemKnowledgeBases(), if any
    adds,                           \* the addKnowledgeBase calls
    query,                          \* the processMessage call
    toggle,                         \* the toggleRag call
    loadAll,                        \* the loadAllKnowledgeBases([]) call
    hist                            \* observations: the calls made, the loader
                                    \* runs started, in progress and completed,
                                    \* the events emitted, the last return,
                                    \* whether _loadState() ended after a call

vars == <<_enabled, _mode, currentKnowledgeBase, userKnowledgeBases,
          systemKnowledgeBases, _systemKnowledgeBasesLoaded,
          _loadingSystemKnowledgeBases, stateFile, kbDir, loadStatePc,
          pendingWrites, loader, adds, query, toggle, loadAll, hist>>

engineVars == <<_enabled, _mode, currentKnowledgeBase, userKnowledgeBases,
                systemKnowledgeBases, _systemKnowledgeBasesLoaded,
                _loadingSystemKnowledgeBases>>

(***************************************************************************)
(* Map helpers: a JS Map is the sequence of its entries, in insertion      *)
(* order.  An entry is [name, store, path, active].                        *)
(***************************************************************************)
MapHas(m, n) == \E i \in 1..Len(m) : m[i].name = n

MapIdx(m, n) == CHOOSE i \in 1..Len(m) : m[i].name = n

MapGet(m, n) == m[MapIdx(m, n)]

MapSet(m, n, e) == IF MapHas(m, n) THEN [m EXCEPT ![MapIdx(m, n)] = e] ELSE Append(m, e)

MapDelete(m, n) == SelectSeq(m, LAMBDA e : e.name # n)

MapKeys(m) == {m[i].name : i \in 1..Len(m)}

\* A vector store is identified by the ingestion that built it; dim is the
\* dimension of the embeddings of its chunks (0: it has no chunks yet).
UserStore(id, n) == [origin |-> "user", src |-> n, task |-> id, dim |-> 0]

SystemStore(n) == [origin |-> "system", src |-> n, task |-> 0, dim |-> 0]

\* MemoryVectorStore.fromDocuments(docs, this.embeddings): the store with
\* the vectors the embedder returned for docs, which are of dimension d.
fromDocuments(store, d) == [store EXCEPT !.dim = d]

\* The dimension of the vectors the embedder of the application returns, and
\* the dimensions an embedder may return.
AppDimension == 1

Dimensions == {1, 2}

UserPath(id, n) == [dir |-> id, name |-> n]

SystemPath(n) == [dir |-> 0, name |-> n]

Entry(n, s, p) == [name |-> n, store |-> s, path |-> p, active |-> FALSE]

\* The content of rag-state.json.  complete: the content is a whole JSON
\* document (JSON.parse accepts it); enabled: the truth value of the
\* "enabled" member and enabledType its JSON type ("absent": no such
\* member); mode and current: the "mode" and "currentKnowledgeBase" members
\* (None is null); unknown: the document has a member the engine does not
\* know.
StateSnapshot(e, m, c) ==
    [exists |-> TRUE, complete |-> TRUE, enabled |-> e, enabledType |-> "boolean",
     mode |-> m, current |-> c, unknown |-> FALSE]

NoStateFile == [StateSnapshot(TRUE, "single", None) EXCEPT !.exists = FALSE]

\* State files a process may be started with.
InitStateFiles ==
    { NoStateFile,
      StateSnapshot(FALSE, "multi", None),
      StateSnapshot(TRUE, "single", "a") }

\* A state file that is cut short: JSON.parse rejects it.
TruncatedFile == [StateSnapshot(TRUE, "single", None) EXCEPT !.complete = FALSE]

\* Further state files: one without the enabled and mode members, one with
\* a mode that is no mode, one with an unknown member, one cut short.
OddStateFiles ==
    { [StateSnapshot(FALSE, "absent", None) EXCEPT !.enabledType = "absent"],
      StateSnapshot(TRUE, "turbo", None),
      [StateSnapshot(FALSE, "multi", None) EXCEPT !.unknown = TRUE],
      TruncatedFile }

\* Knowledge-base directories a process may be started with.
InitKbDirs ==
    { [exists |-> FALSE, files |-> {}],
      [exists |-> TRUE, files |-> {}],
      [exists |-> TRUE, files |-> Names] }

(***************************************************************************)
(* Pure helpers of RAGService.                                             *)
(***************************************************************************)
RECURSIVE MergeInto(_, _, _)
MergeInto(merged, u, i) ==
    IF i > Len(u) THEN merged
    ELSE MergeInto(MapSet(merged, u[i].name, u[i]), u, i + 1)

\* System entries first, then the user entries; a user entry of the same
\* name replaces the value of the system entry and keeps its position.
_getMergedKnowledgeBases(u, s) == MergeInto(s, u, 1)

\* this.userKnowledgeBases.get(name) || this.systemKnowledgeBases.get(name)
HasKnowledgeBase(u, s, n) == MapHas(u, n) \/ MapHas(s, n)

\* What the lookup of a missing name yields (undefined).
Undefined == Entry(None, SystemStore(None), SystemPath(None))

_getKnowledgeBase(u, s, n) ==
    IF MapHas(u, n) THEN MapGet(u, n)
    ELSE IF MapHas(s, n) THEN MapGet(s, n)
    ELSE Undefined

\* kb.active = v on the entry object that _getKnowledgeBase(n) returns.
SetActive(u, s, n, v) ==
    IF MapHas(u, n) THEN <<MapSet(u, n, [MapGet(u, n) EXCEPT !.active = v]), s>>
    ELSE IF MapHas(s, n) THEN <<u, MapSet(s, n, [MapGet(s, n) EXCEPT !.active = v])>>
    ELSE <<u, s>>

\* A switchKnowledgeBase(name) without the lookup of name at its start.
switchWithoutLookup(u, s, cur, name) ==
    LET off == IF cur # None THEN SetActive(u, s, cur, FALSE) ELSE <<u, s>>
        on == SetActive(off[1], off[2], name, TRUE)
    IN [ok |-> HasKnowledgeBase(u, s, name), user |-> on[1], system |-> on[2],
        current |-> name]

\* The synchronous part of switchKnowledgeBase(name), up to its
\* await this._saveState(): the registry and the pointer after it.
switchKnowledgeBase(u, s, cur, name) ==
    IF ~HasKnowledgeBase(u, s, name)
    THEN [ok |-> FALSE, user |-> u, system |-> s, current |-> cur]
    ELSE LET off == IF cur # None THEN SetActive(u, s, cur, FALSE) ELSE <<u, s>>
             on == SetActive(off[1], off[2], name, TRUE)
         IN [ok |-> TRUE, user |-> on[1], system |-> on[2], current |-> name]

\* listKnowledgeBases(): the merged entries with the reported active flag.
listKnowledgeBases ==
    LET merged == _getMergedKnowledgeBases(userKnowledgeBases, systemKnowledgeBases)
    IN [i \in 1..Len(merged) |->
          [name |-> merged[i].name, path |-> merged[i].path,
           active |-> merged[i].active \/ (currentKnowledgeBase = merged[i].name)]]

\* message.trim()
Trim(t) == IF t = "  " THEN "" ELSE t

\* A JSON.stringify that leaves out the members that are null, too.
ToJsonWithoutNull(v) == IF v \in {"undefined", None} THEN "absent" ELSE v

\* JSON.stringify of the value of an object member: a member whose value is
\* undefined is left out.
ToJson(v) == IF v = "undefined" THEN "absent" ELSE v

\* The value of a member of the object JSON.parse returns: reading a member
\* that is not there yields undefined.
FromJson(j) == IF j = "absent" THEN "undefined" ELSE j

\* The document _saveState() hands to fs.writeFile for enabled (truth value
\* e, typeof t), mode m and currentKnowledgeBase c.
SavedDocument(e, t, m, c) ==
    [StateSnapshot(e, ToJson(m), ToJson(c)) EXCEPT !.enabledType = ToJson(t)]

\* _saveState() for an _enabled of the type it has now.
_saveState(e, m, c) == SavedDocument(e, hist.enabledType, m, c)

\* What _loadState() assigns from a document JSON.parse accepted.
LoadedFrom(doc) ==
    [enabled |-> doc.enabled, enabledType |-> FromJson(doc.enabledType),
     mode |-> FromJson(doc.mode), current |-> FromJson(doc.current)]

(***************************************************************************)
(* Initial state: the constructor has run, its _loadState() is suspended   *)
(* in fs.readFile.                                                         *)
(***************************************************************************)
IdleLoader == [pc |-> "idle", tasks |-> [n \in Names |-> "none"], snap |-> NoStateFile]

\* emptyAtCall: the merged view was empty when the call was made; repeats:
\* the call repeats, with the same path, the call that returned success just
\* before it.
IdleAdd == [pc |-> "idle", name |-> None, dir |-> 0, result |-> "none",
            emitted |-> FALSE, events |-> <<>>, emptyAtCall |-> FALSE,
            repeats |-> FALSE, snap |-> NoStateFile]

NoResult == [status |-> "none", docKb |-> None, metaKb |-> None,
             docStore |-> SystemStore(None), kbs |-> {}, documents |-> <<>>]

\* callKb, callKbKnown, callMerged: this.currentKnowledgeBase, whether it is
\* in a map, and the size of the merged view when the call was made;
\* retrieved: what each similarity search returned.
IdleQuery == [pc |-> "idle", text |-> "", mode |-> "single", enabled |-> TRUE,
              callKb |-> None, callKbKnown |-> FALSE, callMerged |-> 0,
              startKb |-> None,
              store |-> SystemStore(None), kbs |-> <<>>, searches |-> 0,
              retrieved |-> <<>>, result |-> NoResult]

IdleToggle == [pc |-> "idle", enable |-> FALSE, mode |-> None]

NoReturn == [op |-> "none", duringLoad |-> FALSE, loaded |-> FALSE]

\* The latest call of switchKnowledgeBase, removeKnowledgeBase or
\* addKnowledgeBase, when no other call has been made since: its argument,
\* its result, the events it emitted (and which addKnowledgeBase call it is).
NoOp == [op |-> "none", name |-> None, ok |-> FALSE, error |-> "none",
         events |-> <<>>, id |-> 0, cur |-> None]

\* What the latest status call reported and the call it followed, when no
\* other call has been made since (current = None: no such status call).
NoStatus == [after |-> NoOp, current |-> None]

\* The three persisted fields as they are in memory.
MemoryOf(e, t, m, c) == [enabled |-> e, enabledType |-> t, mode |-> m, current |-> c]

\* What is remembered of the end of the previous process: whether a save
\* was in flight, the state file before the end, the documents in flight,
\* whether a call had changed the state, the three fields in memory and the
\* number of calls made.
NoCrash == [inSave |-> FALSE, old |-> NoStateFile, new |-> {}, mutated |-> FALSE,
            memory |-> MemoryOf(TRUE, "boolean", "single", None), calls |-> 0]

\* An EventEmitter of infrastructure/events, for one event name.  listeners
\* is this.events.get(event): a listener is the function given to on() or
\* the onceWrapper made by once() (once), it has an identity (id, in the
\* order of registration) and it returns or raises when called (raises).
\* registered, invoked, threw: the array when the latest emit was called,
\* the listeners that emit called, in order, and whether an exception left
\* it.
NewEmitter ==
    [listeners |-> <<>>, nextId |-> 1, emits |-> 0,
     registered |-> <<>>, invoked |-> <<>>, threw |-> FALSE]

\* The minRelevanceScore member of the config object given to the
\* constructor: not given (undefined), or a score in tenths.
NotGiven == [given |-> FALSE, value |-> 0]

Given(v) == [given |-> TRUE, value |-> v]

\* The options the application constructs the engine with, and the options
\* an engine may be constructed with: none, and scores of the range [0, 1].
AppOption == Given(minRelevanceScore)

Options == {NotGiven, Given(0), Given(7), Given(10)}

\* config.minRelevanceScore || 0.9: the default stands in for every falsy
\* value of the member.
constructorConfig(option) ==
    [minRelevanceScore |->
        IF option.given /\ option.value # 0 THEN option.value ELSE 9]

\* config is this.config and option what the constructor was given;
\* embedder: the dimensions of the vectors that this.embeddings may return,
\* and pinned the dimension of the vectors of its first successful call (0:
\* there was none);
\* enabledType is typeof this._enabled, of which _enabled holds the truth
\* value; emitter is an EventEmitter of the application; listening: two
\* listeners are registered with eventManager for the events of the engine,
\* listener 1 before listener 2; reacts: the callback of listener 1 sets
\* ragService.mode = 'single' when it is called for rag:enabledChanged;
\* raises: the events of the knowledge bases for which the callback of
\* listener 1 raises;
\* logs[k]: the events listener k was called for, in order.  The other
\* fields are observations.
HistOf(option) ==
    [option |-> option, config |-> constructorConfig(option),
     embedder |-> {AppDimension}, pinned |-> 0, raises |-> {}, calls |-> 0, loadsStarted |-> 0, running |-> 0, completed |-> 0,
     loadedEmits |-> 0, ret |-> NoReturn, mutated |-> FALSE,
     loadRaced |-> FALSE, lastOp |-> NoOp, status |-> NoStatus,
     enabledType |-> "boolean", crashes |-> 0, crash |-> NoCrash,
     emitter |-> NewEmitter, listening |-> FALSE, reacts |-> FALSE,
     logs |-> <<<<>>, <<>>>>]

InitHist == HistOf(AppOption)

\* The state after the constructor, for a state file among files, with
\* what hist holds among hists.
ConstructedAs(files, hists) ==
    /\ _enabled = TRUE
    /\ _mode = "single"
    /\ currentKnowledgeBase = None
    /\ userKnowledgeBases = <<>>
    /\ systemKnowledgeBases = <<>>
    /\ _systemKnowledgeBasesLoaded = FALSE
    /\ _loadingSystemKnowledgeBases = FALSE
    /\ stateFile \in files
    /\ kbDir \in InitKbDirs
    /\ loadStatePc = "reading"
    /\ pendingWrites = {}
    /\ loader = IdleLoader
    /\ adds = [i \in AddIds |-> IdleAdd]
    /\ query = IdleQuery
    /\ toggle = IdleToggle
    /\ loadAll = "idle"
    /\ hist \in hists

\* The state after the constructor, for a state file among files and the
\* options among options.
ConstructedWith(files, options) ==
    ConstructedAs(files, {HistOf(option) : option \in options})

Constructed(files) == ConstructedWith(files, {AppOption})

Init == Constructed(InitStateFiles)

\* A start with an embedder that may return vectors of any of the
\* dimensions.
InitDimension ==
    ConstructedAs(InitStateFiles, {[InitHist EXCEPT !.embedder = Dimensions]})

\* A start with any of the options.
InitConfig == ConstructedWith(InitStateFiles, Options)

\* A start with any of the state files.
InitPersist == Constructed(InitStateFiles \cup OddStateFiles)

(***************************************************************************)
(* State persistence.                                                      *)
(***************************************************************************)
\* _loadState() resumes after fs.readFile: a missing file or a content that
\* JSON.parse rejects leaves the defaults (the catch), otherwise the three
\* fields are overwritten with the members of the document as they are.
_loadState ==
    /\ loadStatePc = "reading"
    /\ loadStatePc' = "done"
    /\ IF stateFile.exists /\ stateFile.complete
       THEN LET state == LoadedFrom(stateFile)
            IN /\ _enabled' = state.enabled
               /\ _mode' = state.mode
               /\ currentKnowledgeBase' = state.current
               /\ hist' = [hist EXCEPT !.loadRaced = hist.calls > 0,
                                       !.enabledType = state.enabledType]
       ELSE /\ UNCHANGED <<_enabled, _mode, currentKnowledgeBase>>
            /\ hist' = [hist EXCEPT !.loadRaced = hist.calls > 0]
    /\ UNCHANGED <<userKnowledgeBases, systemKnowledgeBases,
                   _systemKnowledgeBasesLoaded, _loadingSystemKnowledgeBases,
                   stateFile, kbDir, pendingWrites, loader, adds, query,
                   toggle, loadAll>>

\* An fs.writeFile started by a _saveState() that nobody awaits completes.
WriteDone ==
    \E w \in pendingWrites :
        /\ stateFile' = w
        /\ pendingWrites' = pendingWrites \ {w}
        /\ UNCHANGED <<engineVars, kbDir, loadStatePc, loader, adds, query,
                       toggle, loadAll, hist>>

(***************************************************************************)
(* eventManager (services/database.js): an EventEmitter of Node, whose     *)
(* emit calls the listeners of the event one after the other, in the order *)
(* of registration, before it returns; an exception of a listener leaves   *)
(* emit at once (EventManager.emit has no try around super.emit).          *)
(***************************************************************************)
\* The callback of listener k is called for the event.
Notified(h, k, event) ==
    IF h.listening THEN [h EXCEPT !.logs[k] = Append(@, event)] ELSE h

\* eventManager.emit(event, ...) throws: the callback of listener 1 raises.
Raises(h, event) == h.listening /\ event \in h.raises

\* eventManager.emit(event, ...): the listeners take note; listener 2 is
\* not called when listener 1 raised.
Emitted(h, event) ==
    IF Raises(h, event) THEN Notified(h, 1, event)
    ELSE Notified(Notified(h, 1, event), 2, event)

\* The events of the knowledge bases a listener may raise for.
RaisingSets ==
    { {"rag:knowledgeBaseSwitched"}, {"rag:knowledgeBaseRemoved"},
      {"rag:knowledgeBaseAdded"} }

\* eventManager.on(...) for the two listeners, before any call, the
\* callback of listener 1 raising for some events.
SubscribeRaising ==
    \E events \in RaisingSets :
        /\ ~hist.listening
        /\ hist.calls = 0
        /\ hist' = [hist EXCEPT !.listening = TRUE, !.raises = events]
        /\ UNCHANGED <<engineVars, stateFile, kbDir, loadStatePc, pendingWrites,
                       loader, adds, query, toggle, loadAll>>

\* The state file when an awaited _saveState() has settled (NoStateFile:
\* the switchKnowledgeBase that was awaited left through its catch before
\* its _saveState()).
AfterSave(snap) == IF snap.exists THEN snap ELSE stateFile

\* eventManager.on(...) for the two listeners, before any call.
Subscribe ==
    \E reacts \in BOOLEAN :
        /\ ~hist.listening
        /\ hist.calls = 0
        /\ hist' = [hist EXCEPT !.listening = TRUE, !.reacts = reacts]
        /\ UNCHANGED <<engineVars, stateFile, kbDir, loadStatePc, pendingWrites,
                       loader, adds, query, toggle, loadAll>>

(***************************************************************************)
(* The setters.  They are synchronous and are also run by toggleRag, so    *)
(* they are functions on the slice of the state they touch.                *)
(***************************************************************************)
Slice ==
    [enabled |-> _enabled, mode |-> _mode,
     loading |-> _loadingSystemKnowledgeBases, loader |-> loader,
     writes |-> pendingWrites, hist |-> hist]

\* The entry gates without the check of the loading flag.
EntersLoaderWhileLoading(loading, loaded) == ~loaded

\* The entry gates of _loadSystemKnowledgeBases(): the call goes on to the
\* scan only when neither flag is set.
EntersLoader(loading, loaded) == ~loading /\ ~loaded

StartedLoader == [IdleLoader EXCEPT !.pc = "access"]

\* A setter without the validation.
AcceptsAnyMode(newMode) == TRUE

\* newMode === 'single' || newMode === 'multi'
IsValidMode(newMode) == newMode \in Modes

\* set mode(newMode): it throws before anything else when newMode is no
\* mode.  (hist.lastOp records the calls whose argument is no mode.)
set_mode(S, newMode) ==
    LET triggers == newMode = "multi" /\ ~_systemKnowledgeBasesLoaded
        enters == triggers /\ EntersLoader(S.loading, _systemKnowledgeBasesLoaded)
    IN IF ~IsValidMode(newMode)
       THEN [S EXCEPT
               !.hist.lastOp = [NoOp EXCEPT !.op = "set_mode", !.name = newMode,
                                            !.error = "INVALID_ARGUMENT"]]
       ELSE
       [S EXCEPT
          !.mode = newMode,
          !.loading = @ \/ enters,
          !.loader = IF enters THEN StartedLoader ELSE @,
          !.writes = IF triggers THEN @
                     ELSE @ \cup {SavedDocument(S.enabled, S.hist.enabledType,
                                                newMode, currentKnowledgeBase)},
          !.hist = [@ EXCEPT
                      !.loadsStarted = IF enters THEN @ + 1 ELSE @,
                      !.running = IF enters THEN @ + 1 ELSE @,
                      !.ret = IF triggers
                              THEN [op |-> "set_mode", duringLoad |-> S.loading,
                                    loaded |-> FALSE]
                              ELSE @,
                      !.mutated = TRUE,
                      !.lastOp = IF newMode \in Modes THEN @
                                 ELSE [NoOp EXCEPT
                                         !.op = "set_mode", !.name = newMode,
                                         !.ok = TRUE,
                                         !.events = <<"rag:modeChanged">>],
                      !.logs = Emitted(S.hist, "rag:modeChanged").logs]]

\* set enabled(value) for a value of truth value `value` and typeof `type`.
\* The emit runs the callback of listener 1, which may set the mode, then
\* the callback of listener 2; the loadAllKnowledgeBases([]) is not
\* awaited.
set_enabled_of(S, value, type) ==
    LET assigned == [S EXCEPT !.enabled = value,
                              !.hist = Notified([@ EXCEPT !.enabledType = type], 1,
                                                "rag:enabledChanged")]
        reacted == IF S.hist.listening /\ S.hist.reacts
                   THEN set_mode(assigned, "single") ELSE assigned
        emitted == [reacted EXCEPT !.hist = Notified(@, 2, "rag:enabledChanged")]
        triggers == value /\ emitted.mode = "multi" /\ ~_systemKnowledgeBasesLoaded
        enters == triggers /\ EntersLoader(emitted.loading, _systemKnowledgeBasesLoaded)
    IN [emitted EXCEPT
          !.loading = @ \/ enters,
          !.loader = IF enters THEN StartedLoader ELSE @,
          !.writes = @ \cup {SavedDocument(value, type, emitted.mode,
                                           currentKnowledgeBase)},
          !.hist = [@ EXCEPT
                      !.loadsStarted = IF enters THEN @ + 1 ELSE @,
                      !.running = IF enters THEN @ + 1 ELSE @,
                      !.ret = IF triggers
                              THEN [op |-> "set_enabled", duringLoad |-> emitted.loading,
                                    loaded |-> FALSE]
                              ELSE @,
                      !.mutated = TRUE]]

\* set enabled(value), value a boolean.
set_enabled(S, value) == set_enabled_of(S, value, "boolean")

\* One more call by a caller of the engine.
Called(h) == [h EXCEPT !.calls = @ + 1, !.lastOp = NoOp, !.status = NoStatus]

ApplySlice(S) ==
    /\ Cardinality(S.writes) <= MaxPendingWrites
    /\ _enabled' = S.enabled
    /\ _mode' = S.mode
    /\ _loadingSystemKnowledgeBases' = S.loading
    /\ loader' = S.loader
    /\ pendingWrites' = S.writes
    /\ hist' = S.hist

SetMode ==
    \E newMode \in Modes :
        /\ hist.calls < MaxCalls
        /\ ApplySlice(set_mode([Slice EXCEPT !.hist = Called(@)], newMode))
        /\ UNCHANGED <<currentKnowledgeBase, userKnowledgeBases,
                       systemKnowledgeBases, _systemKnowledgeBasesLoaded,
                       stateFile, kbDir, loadStatePc, adds, query, toggle, loadAll>>

SetEnabled ==
    \E value \in BOOLEAN :
        /\ hist.calls < MaxCalls
        /\ ApplySlice(set_enabled([Slice EXCEPT !.hist = Called(@)], value))
        /\ UNCHANGED <<currentKnowledgeBase, userKnowledgeBases,
                       systemKnowledgeBases, _systemKnowledgeBasesLoaded,
                       stateFile, kbDir, loadStatePc, adds, query, toggle, loadAll>>

\* Values a caller may pass to the mode setter that are no mode.
InvalidModes == {"turbo"}

\* ragService.mode = newMode for a newMode that is no mode.
SetModeInvalid ==
    \E newMode \in InvalidModes :
        /\ hist.calls < MaxCalls
        /\ ApplySlice(set_mode([Slice EXCEPT !.hist = Called(@)], newMode))
        /\ UNCHANGED <<currentKnowledgeBase, userKnowledgeBases,
                       systemKnowledgeBases, _systemKnowledgeBasesLoaded,
                       stateFile, kbDir, loadStatePc, adds, query, toggle, loadAll>>

\* Values a caller may pass to the enabled setter that are no booleans
\* ('yes' and 0), as truth value and typeof.
NonBooleans == {[truthy |-> TRUE, type |-> "string"],
                [truthy |-> FALSE, type |-> "number"]}

\* ragService.enabled = value for a value that is no boolean.
SetEnabledNonBoolean ==
    \E value \in NonBooleans :
        /\ hist.calls < MaxCalls
        /\ ApplySlice(set_enabled_of([Slice EXCEPT !.hist = Called(@)],
                                     value.truthy, value.type))
        /\ UNCHANGED <<currentKnowledgeBase, userKnowledgeBases,
                       systemKnowledgeBases, _systemKnowledgeBasesLoaded,
                       stateFile, kbDir, loadStatePc, adds, query, toggle, loadAll>>

\* The documents of the fs.writeFile calls that have not completed.
InFlight ==
    pendingWrites
       \cup (IF loader.pc = "switchSave" THEN {loader.snap} ELSE {})
       \cup {adds[i].snap : i \in {j \in AddIds : adds[j].pc \in {"switchSave", "save"}}}

\* The process ends at any point and a new one is started: its constructor
\* has run and its _loadState() is suspended in fs.readFile.  An
\* fs.writeFile(path, data) that was in flight opened rag-state.json itself
\* for writing, which empties it, and writes the document into it: the file
\* is left as it was, cut short, or with the whole document.
Crash ==
    /\ hist.crashes < MaxCrashes
    /\ stateFile' \in {stateFile} \cup InFlight
                      \cup (IF InFlight # {} THEN {TruncatedFile} ELSE {})
    /\ _enabled' = TRUE
    /\ _mode' = "single"
    /\ currentKnowledgeBase' = None
    /\ userKnowledgeBases' = <<>>
    /\ systemKnowledgeBases' = <<>>
    /\ _systemKnowledgeBasesLoaded' = FALSE
    /\ _loadingSystemKnowledgeBases' = FALSE
    /\ loadStatePc' = "reading"
    /\ pendingWrites' = {}
    /\ loader' = IdleLoader
    /\ adds' = [i \in AddIds |-> IdleAdd]
    /\ query' = IdleQuery
    /\ toggle' = IdleToggle
    /\ loadAll' = "idle"
    /\ hist' = [HistOf(hist.option) EXCEPT
                  !.calls = hist.calls,
                  !.crashes = hist.crashes + 1,
                  !.crash = [inSave |-> InFlight # {}, old |-> stateFile,
                             new |-> InFlight, mutated |-> hist.mutated,
                             memory |-> MemoryOf(_enabled, hist.enabledType, _mode,
                                                 currentKnowledgeBase),
                             calls |-> hist.calls]]
    /\ UNCHANGED kbDir

(***************************************************************************)
(* EventEmitter of infrastructure/events/EventEmitter.js.                  *)
(***************************************************************************)
\* listeners.indexOf(listener), from 1; 0 when it is not there.
indexOf(listeners, id) ==
    IF \E k \in 1..Len(listeners) : listeners[k].id = id
    THEN CHOOSE k \in 1..Len(listeners) :
            /\ listeners[k].id = id
            /\ \A j \in 1..(k - 1) : listeners[j].id # id
    ELSE 0

\* listeners.splice(index, 1)
splice(listeners, index) ==
    SubSeq(listeners, 1, index - 1) \o SubSeq(listeners, index + 1, Len(listeners))

\* off(event, listener): the first occurrence is removed from the array
\* itself.
off(listeners, id) ==
    IF indexOf(listeners, id) # 0 THEN splice(listeners, indexOf(listeners, id))
    ELSE listeners

\* An emit without the try/catch around the call of the listener.
PropagatesListenerError == FALSE

\* Whether emit catches what a listener raises: the call is in a try whose
\* catch logs the error.
CatchesListenerError == TRUE

\* listeners.forEach(...) of emit from index k on, len being the length of
\* the array when forEach was called: forEach visits the indices below len
\* that are in the array when it comes to them.  A onceWrapper calls its
\* listener and then off(event, onceWrapper); when the listener raises, the
\* off is not reached.
RECURSIVE forEach(_, _, _, _)
forEach(listeners, k, len, invoked) ==
    IF k > len \/ k > Len(listeners)
    THEN [listeners |-> listeners, invoked |-> invoked, threw |-> FALSE]
    ELSE LET listener == listeners[k]
             after == IF listener.once /\ ~listener.raises
                      THEN off(listeners, listener.id) ELSE listeners
             called == Append(invoked, listener.id)
         IN IF listener.raises /\ ~CatchesListenerError
            THEN [listeners |-> after, invoked |-> called, threw |-> TRUE]
            ELSE forEach(after, k + 1, len, called)

\* emit(event, ...args)
emit(listeners) == forEach(listeners, 1, Len(listeners), <<>>)

\* on(event, listener) and once(event, listener), for a listener that
\* returns or raises.
EmitterOn ==
    \E once \in BOOLEAN, raises \in BOOLEAN :
        /\ Len(hist.emitter.listeners) < MaxListeners
        /\ hist.emitter.nextId <= MaxListeners
        /\ hist' = [hist EXCEPT
                      !.emitter.listeners =
                         Append(@, [id |-> hist.emitter.nextId, once |-> once,
                                    raises |-> raises]),
                      !.emitter.nextId = @ + 1]
        /\ UNCHANGED <<engineVars, stateFile, kbDir, loadStatePc, pendingWrites,
                       loader, adds, query, toggle, loadAll>>

\* off(event, listener) for a listener given to on().
EmitterOff ==
    \E k \in 1..Len(hist.emitter.listeners) :
        /\ ~hist.emitter.listeners[k].once
        /\ hist' = [hist EXCEPT
                      !.emitter.listeners = off(@, hist.emitter.listeners[k].id)]
        /\ UNCHANGED <<engineVars, stateFile, kbDir, loadStatePc, pendingWrites,
                       loader, adds, query, toggle, loadAll>>

\* emit(event) is called and returns (or an exception leaves it).
EmitterEmit ==
    /\ hist.emitter.emits < MaxEmits
    /\ Len(hist.emitter.listeners) > 0
    /\ LET done == emit(hist.emitter.listeners)
       IN hist' = [hist EXCEPT
                     !.emitter.listeners = done.listeners,
                     !.emitter.emits = @ + 1,
                     !.emitter.registered = hist.emitter.listeners,
                     !.emitter.invoked = done.invoked,
                     !.emitter.threw = done.threw]
    /\ UNCHANGED <<engineVars, stateFile, kbDir, loadStatePc, pendingWrites,
                   loader, adds, query, toggle, loadAll>>

\* loadAllKnowledgeBases([]) called from outside: it awaits the loader call,
\* which returns at once when a load is in progress.
CallLoadAll ==
    /\ loadAll = "idle"
    /\ hist.calls < MaxCalls
    /\ _mode = "multi" /\ ~_systemKnowledgeBasesLoaded
    /\ IF _loadingSystemKnowledgeBases
       THEN /\ hist' = [Called(hist) EXCEPT
                          !.ret = [op |-> "loadAllKnowledgeBases",
                                   duringLoad |-> TRUE, loaded |-> FALSE]]
            /\ UNCHANGED <<_loadingSystemKnowledgeBases, loader, loadAll>>
       ELSE /\ _loadingSystemKnowledgeBases' = TRUE
            /\ loader' = StartedLoader
            /\ loadAll' = "waiting"
            /\ hist' = [Called(hist) EXCEPT !.loadsStarted = @ + 1,
                                             !.running = @ + 1]
    /\ UNCHANGED <<_enabled, _mode, currentKnowledgeBase, userKnowledgeBases,
                   systemKnowledgeBases, _systemKnowledgeBasesLoaded, stateFile,
                   kbDir, loadStatePc, pendingWrites, adds, query, toggle>>

(***************************************************************************)
(* _loadSystemKnowledgeBases(), after its entry gates.                     *)
(***************************************************************************)
\* The run ends (return or catch, then finally): the loaded flag gets its
\* value, the loading flag is cleared, and a loadAllKnowledgeBases call that
\* awaits this run returns.  emits: rag:systemKnowledgeBasesLoaded is
\* emitted, which resolves the promise toggleRag waits on.
LoaderEnd(loadedValue, emits) ==
    /\ _systemKnowledgeBasesLoaded' = loadedValue
    /\ _loadingSystemKnowledgeBases' = FALSE
    /\ loader' = IdleLoader
    /\ loadAll' = "idle"
    /\ toggle' = IF emits /\ toggle.pc = "waitEvent"
                 THEN [toggle EXCEPT !.pc = "resolved"] ELSE toggle
    /\ hist' = [hist EXCEPT
                  !.running = @ - 1,
                  !.completed = IF loadedValue THEN @ + 1 ELSE @,
                  !.loadedEmits = IF emits THEN @ + 1 ELSE @,
                  !.ret = IF loadAll = "waiting"
                          THEN [op |-> "loadAllKnowledgeBases", duringLoad |-> FALSE,
                                loaded |-> loadedValue]
                          ELSE @]

\* fs.access(knowledgeBasePath) settles.
LoaderAccess ==
    /\ loader.pc = "access"
    /\ loader' = [loader EXCEPT !.pc = IF kbDir.exists THEN "readdir" ELSE "mkdir"]
    /\ UNCHANGED <<engineVars, stateFile, kbDir, loadStatePc, pendingWrites,
                   adds, query, toggle, loadAll, hist>>

\* fs.mkdir settles: on success the flag is set and the run returns without
\* an event; on failure the outer catch clears the flag.
LoaderMkdir ==
    /\ loader.pc = "mkdir"
    /\ \E ok \in BOOLEAN :
          /\ kbDir' = IF ok THEN [exists |-> TRUE, files |-> {}] ELSE kbDir
          /\ LoaderEnd(ok, FALSE)
    /\ UNCHANGED <<_enabled, _mode, currentKnowledgeBase, userKnowledgeBases,
                   systemKnowledgeBases, stateFile, loadStatePc, pendingWrites,
                   adds, query>>

\* The per-file task of txtFiles.map, up to its await fs.readFile: the file
\* is skipped when either map has its name.
TaskStarts(n) ==
    /\ n \in kbDir.files
    /\ ~MapHas(userKnowledgeBases, n)
    /\ ~MapHas(systemKnowledgeBases, n)

\* fs.readdir settles: on success every per-file task runs up to its first
\* await; on failure the outer catch clears the flag.
LoaderReaddir ==
    /\ loader.pc = "readdir"
    /\ \/ /\ loader' = [loader EXCEPT
                          !.pc = "tasks",
                          !.tasks = [n \in Names |->
                                       IF TaskStarts(n) THEN "pending" ELSE "none"]]
          /\ UNCHANGED <<_systemKnowledgeBasesLoaded, _loadingSystemKnowledgeBases,
                         toggle, loadAll, hist>>
       \/ LoaderEnd(FALSE, FALSE)
    /\ UNCHANGED <<_enabled, _mode, currentKnowledgeBase, userKnowledgeBases,
                   systemKnowledgeBases, stateFile, kbDir, loadStatePc,
                   pendingWrites, adds, query>>

\* A Promise.all(loadPromises) that rejects when an ingestion failed.
RejectsOnFailedIngestion == TRUE

\* Whether Promise.all(loadPromises) rejects when an ingestion failed: every
\* per-file task catches and logs its own error, so it never does.
loadPromisesReject == FALSE

\* A call of the embedder returned vectors of dimension d.
Embedded(h, d) == IF h.pinned = 0 THEN [h EXCEPT !.pinned = d] ELSE h

\* One file's ingestion (readFile, createDocuments, fromDocuments) settles:
\* on success the entry is stored, on failure the error is logged and the
\* load carries on.
LoaderTask ==
    \E n \in Names :
        /\ loader.pc = "tasks"
        /\ loader.tasks[n] = "pending"
        /\ \/ \E d \in hist.embedder :
                 /\ systemKnowledgeBases' =
                       MapSet(systemKnowledgeBases, n,
                              Entry(n, fromDocuments(SystemStore(n), d),
                                    SystemPath(n)))
                 /\ loader' = [loader EXCEPT !.tasks[n] = "stored"]
                 /\ hist' = Embedded(hist, d)
                 /\ UNCHANGED <<_systemKnowledgeBasesLoaded,
                                _loadingSystemKnowledgeBases, toggle, loadAll>>
           \/ /\ UNCHANGED systemKnowledgeBases
              /\ IF loadPromisesReject
                 THEN LoaderEnd(FALSE, FALSE)
                 ELSE /\ loader' = [loader EXCEPT !.tasks[n] = "failed"]
                      /\ UNCHANGED <<_systemKnowledgeBasesLoaded,
                                     _loadingSystemKnowledgeBases, toggle,
                                     loadAll, hist>>
        /\ UNCHANGED <<_enabled, _mode, currentKnowledgeBase, userKnowledgeBases,
                       stateFile, kbDir, loadStatePc, pendingWrites, adds, query>>

\* Promise.all(loadPromises) is resolved: the first key of the merged view is
\* activated when there is no current KB, else the run completes.
LoaderFinish ==
    /\ loader.pc = "tasks"
    /\ \A n \in Names : loader.tasks[n] # "pending"
    /\ LET allKbs == _getMergedKnowledgeBases(userKnowledgeBases, systemKnowledgeBases)
       IN IF Len(allKbs) > 0 /\ currentKnowledgeBase = None
          THEN LET firstKb == allKbs[1].name
                   sw == switchKnowledgeBase(userKnowledgeBases, systemKnowledgeBases,
                                             currentKnowledgeBase, firstKb)
               IN /\ userKnowledgeBases' = sw.user
                  /\ systemKnowledgeBases' = sw.system
                  /\ currentKnowledgeBase' = sw.current
                  /\ loader' = [loader EXCEPT
                                  !.pc = "switchSave",
                                  !.snap = IF Raises(hist, "rag:knowledgeBaseSwitched")
                                           THEN NoStateFile
                                           ELSE _saveState(_enabled, _mode, sw.current)]
                  /\ hist' = Emitted(hist, "rag:knowledgeBaseSwitched")
                  /\ UNCHANGED <<_systemKnowledgeBasesLoaded,
                                 _loadingSystemKnowledgeBases, toggle, loadAll>>
          ELSE /\ LoaderEnd(TRUE, TRUE)
               /\ UNCHANGED <<userKnowledgeBases, systemKnowledgeBases,
                              currentKnowledgeBase>>
    /\ UNCHANGED <<_enabled, _mode, stateFile, kbDir, loadStatePc, pendingWrites,
                   adds, query>>

\* The _saveState() awaited by the loader's switchKnowledgeBase settles; the
\* run completes.
LoaderSwitchSaved ==
    /\ loader.pc = "switchSave"
    /\ stateFile' = AfterSave(loader.snap)
    /\ LoaderEnd(TRUE, TRUE)
    /\ UNCHANGED <<_enabled, _mode, currentKnowledgeBase, userKnowledgeBases,
                   systemKnowledgeBases, kbDir, loadStatePc, pendingWrites,
                   adds, query>>

(***************************************************************************)
(* switchKnowledgeBase, removeKnowledgeBase, getStatus called from outside.*)
(***************************************************************************)
\* switchKnowledgeBase(name); the _saveState() it awaits on success is a
\* write in flight.  An unknown name throws inside the try, and so does an
\* emit whose listener raises: the catch returns the failure.
CallSwitchKnowledgeBase ==
    \E name \in Names :
        LET sw == switchKnowledgeBase(userKnowledgeBases, systemKnowledgeBases,
                                      currentKnowledgeBase, name)
            raised == sw.ok /\ Raises(hist, "rag:knowledgeBaseSwitched")
        IN /\ hist.calls < MaxCalls
           /\ userKnowledgeBases' = sw.user
           /\ systemKnowledgeBases' = sw.system
           /\ currentKnowledgeBase' = sw.current
           /\ pendingWrites' =
                 IF sw.ok /\ ~raised
                 THEN pendingWrites \cup {_saveState(_enabled, _mode, sw.current)}
                 ELSE pendingWrites
           /\ Cardinality(pendingWrites') <= MaxPendingWrites
           /\ hist' = [Called(hist) EXCEPT
                         !.mutated = @ \/ sw.ok,
                         !.lastOp =
                            [op |-> "switch", name |-> name, ok |-> sw.ok /\ ~raised,
                             error |-> IF ~sw.ok THEN "NOT_FOUND"
                                       ELSE IF raised THEN "LISTENER_RAISED"
                                       ELSE "none",
                             events |-> IF sw.ok THEN <<"rag:knowledgeBaseSwitched">>
                                        ELSE <<>>,
                             id |-> 0, cur |-> None],
                         !.logs = IF sw.ok
                                  THEN Emitted(hist, "rag:knowledgeBaseSwitched").logs
                                  ELSE @]
           /\ UNCHANGED <<_enabled, _mode, _systemKnowledgeBasesLoaded,
                          _loadingSystemKnowledgeBases, stateFile, kbDir,
                          loadStatePc, loader, adds, query, toggle, loadAll>>

\* removeKnowledgeBase(name); the _saveState() it awaits on success is a
\* write in flight.  An unknown name throws inside the try, and so does an
\* emit whose listener raises: the catch returns the failure.
removeKnowledgeBase ==
    \E name \in Names :
        LET known == HasKnowledgeBase(userKnowledgeBases, systemKnowledgeBases, name)
            raised == known /\ Raises(hist, "rag:knowledgeBaseRemoved")
        IN /\ hist.calls < MaxCalls
           /\ currentKnowledgeBase' =
                 IF known /\ currentKnowledgeBase = name THEN None
                 ELSE currentKnowledgeBase
           /\ IF MapHas(userKnowledgeBases, name)
              THEN /\ userKnowledgeBases' = MapDelete(userKnowledgeBases, name)
                   /\ UNCHANGED systemKnowledgeBases
              ELSE /\ systemKnowledgeBases' = MapDelete(systemKnowledgeBases, name)
                   /\ UNCHANGED userKnowledgeBases
           /\ pendingWrites' =
                 IF known /\ ~raised
                 THEN pendingWrites
                         \cup {_saveState(_enabled, _mode, currentKnowledgeBase')}
                 ELSE pendingWrites
           /\ Cardinality(pendingWrites') <= MaxPendingWrites
           /\ hist' = [Called(hist) EXCEPT
                         !.mutated = @ \/ known,
                         !.lastOp =
                            [op |-> "remove", name |-> name, ok |-> known /\ ~raised,
                             error |-> IF ~known THEN "NOT_FOUND"
                                       ELSE IF raised THEN "LISTENER_RAISED"
                                       ELSE "none",
                             events |-> IF known THEN <<"rag:knowledgeBaseRemoved">>
                                        ELSE <<>>,
                             id |-> 0, cur |-> None],
                         !.logs = IF known
                                  THEN Emitted(hist, "rag:knowledgeBaseRemoved").logs
                                  ELSE @]
           /\ UNCHANGED <<_enabled, _mode, _systemKnowledgeBasesLoaded,
                          _loadingSystemKnowledgeBases, stateFile, kbDir,
                          loadStatePc, loader, adds, query, toggle, loadAll>>

\* The reset getStatus() and getKnowledgeBaseStatus() apply to a current KB
\* that is in neither map.
StatusReset(u, s, cur) ==
    IF cur # None /\ ~HasKnowledgeBase(u, s, cur) THEN None ELSE cur

\* this.currentKnowledgeBase || '无' in the object a status call returns.
Reported(cur) == IF cur = None THEN "无" ELSE cur

\* getStatus(): the reset, then the report of this.currentKnowledgeBase.
getStatus ==
    /\ hist.calls < MaxCalls
    /\ currentKnowledgeBase' =
          StatusReset(userKnowledgeBases, systemKnowledgeBases, currentKnowledgeBase)
    /\ hist' = [Called(hist) EXCEPT
                  !.status = [after |-> hist.lastOp,
                              current |-> Reported(currentKnowledgeBase')]]
    /\ UNCHANGED <<_enabled, _mode, userKnowledgeBases, systemKnowledgeBases,
                   _systemKnowledgeBasesLoaded, _loadingSystemKnowledgeBases,
                   stateFile, kbDir, loadStatePc, pendingWrites, loader, adds,
                   query, toggle, loadAll>>

\* getKnowledgeBaseStatus(): the same reset, then the report of
\* this.currentKnowledgeBase (with the keys of the merged view).
getKnowledgeBaseStatus ==
    /\ hist.calls < MaxCalls
    /\ currentKnowledgeBase' =
          StatusReset(userKnowledgeBases, systemKnowledgeBases, currentKnowledgeBase)
    /\ hist' = [Called(hist) EXCEPT
                  !.status = [after |-> hist.lastOp,
                              current |-> Reported(currentKnowledgeBase')]]
    /\ UNCHANGED <<_enabled, _mode, userKnowledgeBases, systemKnowledgeBases,
                   _systemKnowledgeBasesLoaded, _loadingSystemKnowledgeBases,
                   stateFile, kbDir, loadStatePc, pendingWrites, loader, adds,
                   query, toggle, loadAll>>

(***************************************************************************)
(* addKnowledgeBase(filePath); call i adds the file <dir i>/<name>.txt.    *)
(***************************************************************************)
AddUnchanged ==
    UNCHANGED <<_enabled, _mode, _systemKnowledgeBasesLoaded,
                _loadingSystemKnowledgeBases, kbDir, loadStatePc, pendingWrites,
                loader, query, toggle, loadAll>>

\* Call i returns: the result is noted when no other call was made since
\* call i was made.
AddReturned(h, i, ok, error, events) ==
    IF h.lastOp.op = "add" /\ h.lastOp.id = i
    THEN [h EXCEPT !.lastOp.ok = ok, !.lastOp.error = error,
                   !.lastOp.events = events]
    ELSE h

\* Call a emits rag:knowledgeBaseAdded: it goes on to await
\* this._saveState(), or, when a listener raises, to its catch, which
\* returns the failure.
AddEmitted(a, h, e, m, c) ==
    IF Raises(h, "rag:knowledgeBaseAdded")
    THEN [a EXCEPT !.pc = "done", !.result = "failed", !.emitted = TRUE,
                   !.events = Append(@, "rag:knowledgeBaseAdded")]
    ELSE [a EXCEPT !.pc = "save", !.emitted = TRUE,
                   !.events = Append(@, "rag:knowledgeBaseAdded"),
                   !.snap = SavedDocument(e, h.enabledType, m, c)]

\* What is observed of that emit of call i.
AddEmittedHist(h, i, a) ==
    IF Raises(h, "rag:knowledgeBaseAdded")
    THEN AddReturned(Emitted(h, "rag:knowledgeBaseAdded"), i, FALSE,
                     "LISTENER_RAISED", Append(a.events, "rag:knowledgeBaseAdded"))
    ELSE Emitted(h, "rag:knowledgeBaseAdded")

\* The call, up to await fs.access(filePath).  Calls are numbered in the
\* order they are made; directories being interchangeable, a call names the
\* first directory or, once a call has been made, any of them.
AddCall ==
    \E i \in AddIds, n \in Names, d \in Dirs :
        /\ adds[i].pc = "idle"
        /\ \A j \in AddIds : j < i => adds[j].pc # "idle"
        /\ d = 1 \/ \E j \in AddIds : adds[j].pc # "idle"
        /\ hist.calls < MaxCalls
        /\ adds' = [adds EXCEPT ![i] =
                      [IdleAdd EXCEPT
                         !.pc = "access", !.name = n, !.dir = d,
                         !.emptyAtCall =
                            Len(_getMergedKnowledgeBases(userKnowledgeBases,
                                                         systemKnowledgeBases)) = 0,
                         !.repeats = /\ hist.lastOp.op = "add"
                                     /\ hist.lastOp.ok
                                     /\ hist.lastOp.name = n
                                     /\ adds[hist.lastOp.id].dir = d]]
        /\ hist' = [Called(hist) EXCEPT
                      !.lastOp = [NoOp EXCEPT !.op = "add", !.name = n, !.id = i,
                                             !.cur = currentKnowledgeBase]]
        /\ UNCHANGED <<currentKnowledgeBase, userKnowledgeBases,
                       systemKnowledgeBases, stateFile>>
        /\ AddUnchanged

\* A check of the name in system_kbs only.
ExistsAsSystemKb(u, s, n) == MapHas(s, n)

\* if (this._getKnowledgeBase(name)) throw ... 已存在
AlreadyExists(u, s, n) == HasKnowledgeBase(u, s, n)

\* fs.access settles: it rejects, or it resolves and the existence check
\* follows, up to await fs.readFile.
AddAccess ==
    \E i \in AddIds :
        /\ adds[i].pc = "access"
        /\ \/ /\ adds' = [adds EXCEPT ![i].pc = "done", ![i].result = "NO_FILE"]
              /\ hist' = AddReturned(hist, i, FALSE, "NO_FILE", <<>>)
           \/ IF AlreadyExists(userKnowledgeBases, systemKnowledgeBases, adds[i].name)
              THEN /\ adds' = [adds EXCEPT ![i].pc = "done", ![i].result = "exists"]
                   /\ hist' = AddReturned(hist, i, FALSE, "ALREADY_EXISTS", <<>>)
              ELSE /\ adds' = [adds EXCEPT ![i].pc = "ingest"]
                   /\ UNCHANGED hist
        /\ UNCHANGED <<currentKnowledgeBase, userKnowledgeBases,
                       systemKnowledgeBases, stateFile>>
        /\ AddUnchanged

\* An addKnowledgeBase that never activates the KB it stores.
NeverFirst(u, s) == FALSE

\* this._getMergedKnowledgeBases().size === 1, after the new entry is stored.
IsFirstKnowledgeBase(u, s) == Len(_getMergedKnowledgeBases(u, s)) = 1

\* The ingestion (readFile, createDocuments, fromDocuments) settles; on
\* success the entry is stored and, when it is the only entry of the merged
\* view, activated by the synchronous part of switchKnowledgeBase.
AddIngest ==
    \E i \in AddIds :
        /\ adds[i].pc = "ingest"
        /\ \/ /\ adds' = [adds EXCEPT ![i].pc = "done", ![i].result = "failed"]
              /\ hist' = AddReturned(hist, i, FALSE, "INGEST_FAILED", <<>>)
              /\ UNCHANGED <<currentKnowledgeBase, userKnowledgeBases,
                             systemKnowledgeBases>>
           \/ \E d \in hist.embedder :
              LET n == adds[i].name
                  u == MapSet(userKnowledgeBases, n,
                              Entry(n, fromDocuments(UserStore(i, n), d),
                                    UserPath(adds[i].dir, n)))
                  sw == switchKnowledgeBase(u, systemKnowledgeBases,
                                            currentKnowledgeBase, n)
              IN /\ hist' = [(IF IsFirstKnowledgeBase(u, systemKnowledgeBases)
                                THEN Emitted(Embedded(hist, d),
                                             "rag:knowledgeBaseSwitched")
                                ELSE AddEmittedHist(Embedded(hist, d), i, adds[i]))
                               EXCEPT !.mutated = TRUE]
                 /\ IF IsFirstKnowledgeBase(u, systemKnowledgeBases)
                    THEN /\ userKnowledgeBases' = sw.user
                         /\ systemKnowledgeBases' = sw.system
                         /\ currentKnowledgeBase' = sw.current
                         /\ adds' = [adds EXCEPT
                                       ![i].pc = "switchSave",
                                       ![i].events = <<"rag:knowledgeBaseSwitched">>,
                                       ![i].snap =
                                          IF Raises(hist, "rag:knowledgeBaseSwitched")
                                          THEN NoStateFile
                                          ELSE _saveState(_enabled, _mode, sw.current)]
                    ELSE /\ userKnowledgeBases' = u
                         /\ UNCHANGED <<systemKnowledgeBases, currentKnowledgeBase>>
                         /\ adds' = [adds EXCEPT
                                       ![i] = AddEmitted(@, hist, _enabled, _mode,
                                                         currentKnowledgeBase)]
        /\ UNCHANGED stateFile
        /\ AddUnchanged

\* The _saveState() awaited by switchKnowledgeBase settles; then
\* rag:knowledgeBaseAdded is emitted, up to await this._saveState().
AddSwitchSaved ==
    \E i \in AddIds :
        /\ adds[i].pc = "switchSave"
        /\ stateFile' = AfterSave(adds[i].snap)
        /\ adds' = [adds EXCEPT
                      ![i] = AddEmitted(@, hist, _enabled, _mode,
                                        currentKnowledgeBase)]
        /\ hist' = AddEmittedHist(hist, i, adds[i])
        /\ UNCHANGED <<currentKnowledgeBase, userKnowledgeBases,
                       systemKnowledgeBases>>
        /\ AddUnchanged

\* The last _saveState() settles; the call returns success.
AddSaved ==
    \E i \in AddIds :
        /\ adds[i].pc = "save"
        /\ stateFile' = adds[i].snap
        /\ adds' = [adds EXCEPT ![i].pc = "done", ![i].result = "ok"]
        /\ hist' = AddReturned(hist, i, TRUE, "none", adds[i].events)
        /\ UNCHANGED <<currentKnowledgeBase, userKnowledgeBases,
                       systemKnowledgeBases>>
        /\ AddUnchanged

(***************************************************************************)
(* processMessage(message, options) and multiSearch(message).              *)
(***************************************************************************)
QueryUnchanged ==
    UNCHANGED <<engineVars, stateFile, kbDir, loadStatePc, pendingWrites, loader,
                adds, toggle, loadAll>>

Fails(status) == [NoResult EXCEPT !.status = status]

\* The (name, store) pairs multiSearch starts a similarity search on, in the
\* order of the keys of the merged view.
SearchedKbs(u, s) ==
    LET activeKbs == _getMergedKnowledgeBases(u, s)
    IN [i \in 1..Len(activeKbs) |->
          [name |-> activeKbs[i].name,
           store |-> _getKnowledgeBase(u, s, activeKbs[i].name).store]]

\* !this.currentKnowledgeBase
NoCurrentKnowledgeBase(u, s, cur) == cur = None

\* !this.currentKnowledgeBase || !this._getKnowledgeBase(this.currentKnowledgeBase)
NoActiveKnowledgeBase(u, s, cur) == cur = None \/ ~HasKnowledgeBase(u, s, cur)

\* A multiSearch that goes on to the fan-out whatever activeKbs holds.
SearchesAnyway(activeKbs) == FALSE

\* !activeKbs.length
NoKnowledgeBaseLoaded(activeKbs) == Len(activeKbs) = 0

\* The call, up to the first await of a similarity search.
processMessage ==
    \E message \in Texts, optMode \in Modes \cup {None} :
        LET mode == IF optMode # None THEN optMode ELSE _mode
            u == userKnowledgeBases
            s == systemKnowledgeBases
            cur == currentKnowledgeBase
            called == [IdleQuery EXCEPT
                         !.text = message, !.mode = mode, !.enabled = _enabled,
                         !.callKb = cur,
                         !.callKbKnown = HasKnowledgeBase(u, s, cur),
                         !.callMerged = Len(_getMergedKnowledgeBases(u, s))]
        IN /\ query.pc = "idle"
           /\ hist.calls < MaxCalls
           /\ hist' = Called(hist)
           /\ query' =
                 IF Trim(message) = ""
                 THEN [called EXCEPT !.result = Fails("INVALID_ARGUMENT")]
                 ELSE IF ~_enabled
                 THEN [called EXCEPT !.result = Fails("DISABLED")]
                 ELSE IF mode = "single"
                 THEN IF NoActiveKnowledgeBase(u, s, cur)
                      THEN [called EXCEPT !.result = Fails("NO_ACTIVE_KB")]
                      ELSE [called EXCEPT !.pc = "search",
                                          !.startKb = cur,
                                          !.store = _getKnowledgeBase(u, s, cur).store,
                                          !.searches = 1]
                 ELSE IF mode = "multi"
                 THEN IF NoKnowledgeBaseLoaded(_getMergedKnowledgeBases(u, s))
                      THEN [called EXCEPT !.result = Fails("NO_KB_LOADED")]
                      ELSE [called EXCEPT !.pc = "multiSearch",
                                          !.kbs = SearchedKbs(u, s),
                                          !.searches = Len(SearchedKbs(u, s))]
                 ELSE [called EXCEPT !.result = Fails("UNSUPPORTED_MODE")]
           /\ QueryUnchanged

(***************************************************************************)
(* The similarity searches and the treatment of their results.             *)
(***************************************************************************)
SortedDesc(q) == \A i \in 1..(Len(q) - 1) : q[i] >= q[i + 1]

\* What store.similaritySearchWithScore(message, k) resolves to: the scores
\* of at most k chunks, best first.  The stores are built by
\* MemoryVectorStore.fromDocuments(docs, embeddings) without a similarity
\* option, so the score of a chunk is the cosine of its embedding and the
\* embedding of the message.
SearchResults(k) ==
    {q \in UNION {[1..n -> Scores] : n \in 0..k} : SortedDesc(q)}

\* A similarity search settles: it raises, or it resolves to its results.
SearchOutcomes ==
    {[raised |-> TRUE, scores |-> <<>>]}
        \cup {[raised |-> FALSE, scores |-> q] : q \in SearchResults(maxRetrievedDocs)}

\* score > this.config.minRelevanceScore
IsAboveMinRelevance(score) == score > hist.config.minRelevanceScore

\* score >= this.config.minRelevanceScore
IsRelevant(score) == score >= hist.config.minRelevanceScore

\* results.filter(...).map(...): the relevant documents, labelled.
RelevantDocs(scores, kbName) ==
    LET kept == SelectSeq(scores, IsRelevant)
    IN [i \in 1..Len(kept) |-> [score |-> kept[i], knowledgeBase |-> kbName]]

\* The callback of activeKbs.map for one KB: its catch turns a search that
\* raised into an empty result.
SearchOneKb(out, kbName) ==
    IF out.raised THEN <<>> ELSE RelevantDocs(out.scores, kbName)

\* A Promise.all that rejects when one of the searches raised.
RejectsWhenAnyRaised(outs) == \E i \in 1..Len(outs) : outs[i].raised

\* Whether the Promise.all of multiSearch rejects: every callback catches
\* its own errors, so it never does.
multiSearchRejects(outs) == FALSE

\* results.flat()
RECURSIVE flat(_)
flat(results) ==
    IF Len(results) = 0 THEN <<>> ELSE Head(results) \o flat(Tail(results))

\* Array.prototype.sort((a, b) => b.score - a.score): stable, best first.
RECURSIVE InsertByScore(_, _)
InsertByScore(sorted, d) ==
    IF Len(sorted) = 0 THEN <<d>>
    ELSE IF Head(sorted).score >= d.score
         THEN <<Head(sorted)>> \o InsertByScore(Tail(sorted), d)
         ELSE <<d>> \o sorted

RECURSIVE sortByScore(_)
sortByScore(docs) ==
    IF Len(docs) = 0 THEN <<>>
    ELSE InsertByScore(sortByScore(SubSeq(docs, 1, Len(docs) - 1)), docs[Len(docs)])

\* docs.slice(0, Infinity)
sliceAll(docs, k) == docs

\* docs.slice(0, k)
slice0(docs, k) == SubSeq(docs, 1, IF Len(docs) < k THEN Len(docs) ELSE k)

\* mergedResults of multiSearch for the outcomes of the searches on kbs.
mergedResults(kbs, outs) ==
    slice0(sortByScore(flat([i \in 1..Len(kbs) |-> SearchOneKb(outs[i], kbs[i].name)])),
           maxRetrievedDocs)

\* The single-mode search settles: it raises, or resolves.  The documents
\* are labelled with this.currentKnowledgeBase as it is now.
QuerySingleDone ==
    /\ query.pc = "search"
    /\ \E out \in SearchOutcomes :
          LET relevantDocs == RelevantDocs(out.scores, currentKnowledgeBase)
              done == [query EXCEPT !.pc = "idle", !.retrieved = <<out>>]
          IN query' =
                IF out.raised
                THEN [done EXCEPT !.result = Fails("EMBEDDING_FAILED")]
                ELSE IF Len(relevantDocs) = 0
                THEN [done EXCEPT !.result = Fails("NO_RELEVANT_CONTENT")]
                ELSE [done EXCEPT
                        !.result = [NoResult EXCEPT
                                      !.status = "ok",
                                      !.docKb = currentKnowledgeBase,
                                      !.metaKb = currentKnowledgeBase,
                                      !.docStore = query.store,
                                      !.documents = relevantDocs]]
    /\ UNCHANGED hist
    /\ QueryUnchanged

\* All searches of multiSearch have settled.
QueryMultiDone ==
    /\ query.pc = "multiSearch"
    /\ \E outs \in [1..Len(query.kbs) -> SearchOutcomes] :
          LET merged == mergedResults(query.kbs, outs)
              done == [query EXCEPT !.pc = "idle", !.retrieved = outs]
          IN query' =
                IF multiSearchRejects(outs)
                THEN [done EXCEPT !.result = Fails("EMBEDDING_FAILED")]
                ELSE IF Len(merged) = 0
                THEN [done EXCEPT !.result = Fails("NO_RELEVANT_CONTENT")]
                ELSE [done EXCEPT
                        !.result = [NoResult EXCEPT
                                      !.status = "ok",
                                      !.kbs = {merged[i].knowledgeBase :
                                                  i \in 1..Len(merged)},
                                      !.documents = merged]]
    /\ UNCHANGED hist
    /\ QueryUnchanged

(***************************************************************************)
(* toggleRag(enable, mode) of chatbot.js.                                  *)
(***************************************************************************)
\* The call, up to await checkRagStatus(): getStatus() has run.
ToggleCall ==
    \E enable \in BOOLEAN, mode \in Modes \cup {None} :
        /\ toggle.pc = "idle"
        /\ hist.calls < MaxCalls
        /\ hist' = Called(hist)
        /\ toggle' = [pc |-> "status", enable |-> enable, mode |-> mode]
        /\ currentKnowledgeBase' =
              StatusReset(userKnowledgeBases, systemKnowledgeBases, currentKnowledgeBase)
        /\ UNCHANGED <<_enabled, _mode, userKnowledgeBases, systemKnowledgeBases,
                       _systemKnowledgeBasesLoaded, _loadingSystemKnowledgeBases,
                       stateFile, kbDir, loadStatePc, pendingWrites, loader, adds,
                       query, loadAll>>

\* After the status: the mode is assigned; for multi the call waits for
\* rag:systemKnowledgeBasesLoaded unless the loaded flag is set; otherwise
\* enabled is assigned and the call returns.  (status.currentKnowledgeBase is
\* never empty, so the "kb switch" refusal cannot happen.)
ToggleAfterStatus ==
    /\ toggle.pc = "status"
    /\ LET S1 == IF toggle.mode # None THEN set_mode(Slice, toggle.mode) ELSE Slice
       IN IF toggle.mode = "multi"
          THEN /\ ApplySlice(S1)
               /\ toggle' = [toggle EXCEPT
                               !.pc = IF _systemKnowledgeBasesLoaded
                                      THEN "resolved" ELSE "waitEvent"]
          ELSE /\ ApplySlice(set_enabled(S1, toggle.enable))
               /\ toggle' = IdleToggle
    /\ UNCHANGED <<currentKnowledgeBase, userKnowledgeBases, systemKnowledgeBases,
                   _systemKnowledgeBasesLoaded, stateFile, kbDir, loadStatePc,
                   adds, query, loadAll>>

\* The awaited promise is resolved: enabled is assigned, the call returns.
ToggleResume ==
    /\ toggle.pc = "resolved"
    /\ ApplySlice(set_enabled(Slice, toggle.enable))
    /\ toggle' = IdleToggle
    /\ UNCHANGED <<currentKnowledgeBase, userKnowledgeBases, systemKnowledgeBases,
                   _systemKnowledgeBasesLoaded, stateFile, kbDir, loadStatePc,
                   adds, query, loadAll>>

(***************************************************************************)
(* The specification.                                                      *)
(***************************************************************************)
\* The engine's state load, its writes, its setters and its loader.
NextEngine ==
    \/ _loadState
    \/ WriteDone
    \/ SetMode
    \/ SetEnabled
    \/ LoaderAccess
    \/ LoaderMkdir
    \/ LoaderReaddir
    \/ LoaderTask
    \/ LoaderFinish
    \/ LoaderSwitchSaved

NextRegistry ==
    \/ CallSwitchKnowledgeBase
    \/ removeKnowledgeBase
    \/ getStatus

NextAdd ==
    \/ AddCall
    \/ AddAccess
    \/ AddIngest
    \/ AddSwitchSaved
    \/ AddSaved

NextQuery ==
    \/ processMessage
    \/ QuerySingleDone
    \/ QueryMultiDone

NextToggle ==
    \/ ToggleCall
    \/ ToggleAfterStatus
    \/ ToggleResume

\* The engine under callers that manage knowledge bases.
Next == NextEngine \/ CallLoadAll \/ NextRegistry \/ NextAdd

Spec == Init /\ [][Next]_vars

\* The engine under callers that set the mode and the enabled flag and ask
\* for the system knowledge bases.
SpecLoader == Init /\ [][NextEngine \/ CallLoadAll]_vars

\* The engine under callers that query it while knowledge bases are switched
\* and removed.
SpecQuery == Init /\ [][NextEngine \/ NextRegistry \/ NextQuery]_vars

\* The engine under the chat layer's toggleRag.
SpecToggle == Init /\ [][NextEngine \/ NextToggle]_vars

NextPersist ==
    \/ _loadState
    \/ WriteDone
    \/ SetMode
    \/ SetEnabled
    \/ SetModeInvalid
    \/ SetEnabledNonBoolean
    \/ Crash

\* The three persisted fields under callers of the setters, with any state
\* file, any argument of the setters, and a process that ends and is
\* started again; the file operations of a loader run that a setter starts
\* do not settle.
SpecPersist == InitPersist /\ [][NextPersist]_vars

\* The engine with two listeners under callers that set the mode and the
\* enabled flag and switch and remove knowledge bases.
SpecEvents == Init /\ [][NextEngine \/ NextRegistry \/ Subscribe]_vars

NextEmitter ==
    \/ EmitterOn
    \/ EmitterOff
    \/ EmitterEmit

\* An EventEmitter under callers of on, once, off and emit.
SpecEmitter == Init /\ [][NextEmitter]_vars

NextConfig ==
    \/ _loadState
    \/ SetMode
    \/ LoaderAccess
    \/ LoaderMkdir
    \/ LoaderReaddir
    \/ LoaderTask
    \/ LoaderFinish
    \/ LoaderSwitchSaved
    \/ NextQuery

\* An engine constructed with any of the options, under callers that set
\* the mode and query it.
SpecConfig == InitConfig /\ [][NextConfig]_vars

NextDimension ==
    \/ _loadState
    \/ CallLoadAll
    \/ LoaderAccess
    \/ LoaderMkdir
    \/ LoaderReaddir
    \/ LoaderTask
    \/ LoaderFinish
    \/ LoaderSwitchSaved
    \/ NextAdd

\* An engine whose embedder may return vectors of any of the dimensions,
\* under callers that ask for the system knowledge bases and add knowledge
\* bases.
SpecDimension == InitDimension /\ [][NextDimension]_vars

NextFailure ==
    \/ _loadState
    \/ WriteDone
    \/ NextRegistry
    \/ NextAdd
    \/ SubscribeRaising

\* The engine with a listener that raises, under callers that add, switch
\* and remove knowledge bases.
SpecFailure == Init /\ [][NextFailure]_vars

NextStatus ==
    \/ _loadState
    \/ WriteDone
    \/ NextRegistry
    \/ getKnowledgeBaseStatus
    \/ NextAdd

\* The engine under callers that ask for its status while knowledge bases
\* are added, switched and removed.
SpecStatus == Init /\ [][NextStatus]_vars

\* The engine under callers that query it and set the mode, with any
\* argument.
SpecInput == Init /\ [][NextEngine \/ NextQuery \/ SetModeInvalid]_vars

(***************************************************************************)
(* The properties.                                                         *)
(***************************************************************************)
\* C1: a query with a proper text on an engine whose enabled flag is false
\* fails with DISABLED and starts no similarity search; and so does every
\* query of a process that was started from a state file with enabled =
\* false and on which no setter has been called.
C1_DisabledBeforeAnySearch ==
    /\ (query.result.status # "none" /\ Trim(query.text) # "" /\ ~query.enabled)
          => (query.result.status = "DISABLED" /\ query.searches = 0)
    /\ (query.result.status # "none" /\ Trim(query.text) # ""
          /\ stateFile.exists /\ ~stateFile.enabled /\ ~hist.mutated)
          => (query.result.status = "DISABLED" /\ query.searches = 0)

\* C2: the documents of a successful single-mode query carry the name of the
\* KB that was active when the query started, in kb_name and in
\* metadata.kb_single, and their content comes from that KB's index (also
\* when the startup state load had ended before the first call).
C2_SingleResultFromSnapshot ==
    (query.result.status = "ok" /\ query.mode = "single" /\ ~hist.loadRaced)
        => /\ query.result.docKb = query.startKb
           /\ query.result.metaKb = query.startKb
           /\ query.result.docStore = query.store

\* C3: an index stored in user_kbs under a name is never replaced by the
\* index of another add_kb call while the name stays in user_kbs (the first
\* committer wins, the later one does not overwrite).
C3_FirstCommitWins ==
    [][\A n \in Names :
          (MapHas(userKnowledgeBases, n) /\ MapHas(userKnowledgeBases', n))
             => MapGet(userKnowledgeBases', n).store = MapGet(userKnowledgeBases, n).store]_vars

\* C4: list_kbs reports at most one entry with active = true, and the name of
\* that entry is active_name (also when the startup state load had ended
\* before the first call).
C4_AtMostOneActive ==
    LET kbs == listKnowledgeBases
    IN ~hist.loadRaced =>
          /\ Cardinality({i \in 1..Len(kbs) : kbs[i].active}) <= 1
          /\ \A i \in 1..Len(kbs) : kbs[i].active => kbs[i].name = currentKnowledgeBase

\* C5: a non-empty active_name names an entry of the merged view.
C5_ActiveNameInMergedView ==
    currentKnowledgeBase # None
        => MapHas(_getMergedKnowledgeBases(userKnowledgeBases, systemKnowledgeBases),
                  currentKnowledgeBase)

\* No operation and no state write is in flight.
Quiescent ==
    /\ loadStatePc = "done"
    /\ pendingWrites = {}
    /\ loader.pc = "idle"
    /\ \A i \in AddIds : adds[i].pc \in {"idle", "done"}
    /\ query.pc = "idle"
    /\ toggle.pc = "idle"
    /\ loadAll = "idle"

\* C6: whenever the engine is quiescent after a mutating call, the state file
\* holds the in-memory enabled, mode and active_name (also when the startup
\* state load had ended before the first call).
C6_SavedOnEveryMutation ==
    (Quiescent /\ hist.mutated /\ ~hist.loadRaced)
        => stateFile = StateSnapshot(_enabled, _mode, currentKnowledgeBase)

\* C7: a caller that asked for the system-KB load while a load was in
\* progress, and a set_mode(MULTI) that triggered the load, return only when
\* the loaded flag is set.
C7_ReturnsAfterLoadComplete ==
    /\ hist.ret.duringLoad => hist.ret.loaded
    /\ hist.ret.op = "set_mode" => hist.ret.loaded

\* C8: a load that has set the loaded flag has emitted system_kbs.loaded, so
\* that no toggleRag call is left waiting for the event of a completed load.
C8_EveryCompletedLoadEmits ==
    /\ _systemKnowledgeBasesLoaded => hist.loadedEmits > 0
    /\ toggle.pc = "waitEvent" => ~_systemKnowledgeBasesLoaded

\* C9 (as claimed): at most one loader run is in progress, at most one load
\* is started per process, and system_kbs.loaded is emitted at most once.
C9_AtMostOneLoadStarted ==
    /\ hist.running <= 1
    /\ hist.loadsStarted <= 1
    /\ hist.loadedEmits <= 1

\* C9 (amended): at most one loader run is in progress; while the loaded flag
\* is set no run is in progress (none starts after a completed load), at
\* most one run completes and system_kbs.loaded is emitted at most once.
C9_OneLoaderOneCompletedLoad ==
    /\ hist.running <= 1
    /\ _systemKnowledgeBasesLoaded => (hist.running = 0 /\ hist.completed = 1)
    /\ hist.completed <= 1
    /\ hist.loadedEmits <= 1

\* C9 witness: a second load was started after a failed one, has completed
\* and has emitted the event.
C9_Witness ==
    /\ hist.loadsStarted = 2
    /\ _systemKnowledgeBasesLoaded
    /\ hist.loadedEmits = 1

\* C10: no name is in user_kbs and in system_kbs.
C10_NoNameInBothMaps ==
    MapKeys(userKnowledgeBases) \cap MapKeys(systemKnowledgeBases) = {}

\* The query has been called with a proper text on an enabled engine.
QueryRan == Trim(query.text) # "" /\ query.enabled

\* Some similarity search of the query returned a chunk that reaches the
\* threshold.
SomeChunkReaches ==
    \E i \in 1..Len(query.retrieved) :
        /\ ~query.retrieved[i].raised
        /\ \E j \in 1..Len(query.retrieved[i].scores) :
              query.retrieved[i].scores[j] >= minRelevanceScore

\* C11: every document of a query result has a score of at least
\* min_relevance_score, and a query whose searches have settled (without an
\* error that reaches the caller) fails with NO_RELEVANT_CONTENT exactly when
\* no retrieved chunk reaches the threshold.
C11_ThresholdedResults ==
    /\ \A i \in 1..Len(query.result.documents) :
          query.result.documents[i].score >= minRelevanceScore
    /\ query.result.status = "ok" => Len(query.result.documents) > 0
    /\ query.result.status \in {"ok", "NO_RELEVANT_CONTENT"}
          => (query.result.status = "NO_RELEVANT_CONTENT" <=> ~SomeChunkReaches)

\* C11 witness: a result that kept a chunk at the threshold and dropped one
\* below it.
C11_Witness ==
    /\ query.result.status = "ok"
    /\ \E i \in 1..Len(query.result.documents) :
          query.result.documents[i].score = minRelevanceScore
    /\ \E i \in 1..Len(query.retrieved) :
          \E j \in 1..Len(query.retrieved[i].scores) :
              query.retrieved[i].scores[j] < minRelevanceScore

\* C12: the documents of every query result are sorted by non-increasing
\* score and are at most max_retrieved_docs.
C12_SortedAndCapped ==
    LET docs == query.result.documents
    IN /\ Len(docs) <= maxRetrievedDocs
       /\ \A i \in 1..(Len(docs) - 1) : docs[i].score >= docs[i + 1].score

\* The number of retrieved chunks that reach the threshold.
RECURSIVE CountReaching(_)
CountReaching(outs) ==
    IF Len(outs) = 0 THEN 0
    ELSE Len(SelectSeq(Head(outs).scores, LAMBDA x : x >= minRelevanceScore))
            + CountReaching(Tail(outs))

\* C12 witness: a multi-mode result from more passing chunks than
\* max_retrieved_docs, in which the better document comes from the KB that
\* is searched second.
C12_Witness ==
    /\ query.mode = "multi"
    /\ query.result.status = "ok"
    /\ CountReaching(query.retrieved) > maxRetrievedDocs
    /\ Len(query.result.documents) = maxRetrievedDocs
    /\ query.result.documents[1].score > query.result.documents[2].score
    /\ query.result.documents[1].knowledgeBase = query.kbs[2].name

\* The KBs of a multi-mode query whose search did not raise, with their
\* outcomes, as the sequence of the indices kept.
Remaining == SelectSeq([i \in 1..Len(query.retrieved) |-> i],
                       LAMBDA i : ~query.retrieved[i].raised)

\* The merged, thresholded result of the remaining KBs: their relevant
\* chunks, best first, at most max_retrieved_docs.
ExpectedOfRemaining ==
    LET docs == flat([r \in 1..Len(Remaining) |->
                        LET kept == SelectSeq(query.retrieved[Remaining[r]].scores,
                                              LAMBDA x : x >= minRelevanceScore)
                        IN [j \in 1..Len(kept) |->
                              [score |-> kept[j],
                               knowledgeBase |-> query.kbs[Remaining[r]].name]]])
        ranked == sortByScore(docs)
    IN SubSeq(ranked, 1, IF Len(ranked) < maxRetrievedDocs THEN Len(ranked)
                         ELSE maxRetrievedDocs)

\* C13: a multi-mode query in which the search of a KB raised does not fail
\* with that error: it returns the merged, thresholded results of the
\* remaining KBs (and NO_RELEVANT_CONTENT when they have none).
C13_PerKbFailureIsolated ==
    (query.mode = "multi" /\ query.result.status # "none"
        /\ \E i \in 1..Len(query.retrieved) : query.retrieved[i].raised)
        => /\ query.result.status =
                 (IF Len(ExpectedOfRemaining) > 0 THEN "ok" ELSE "NO_RELEVANT_CONTENT")
           /\ query.result.documents = ExpectedOfRemaining

\* C13 witness: a successful multi-mode query over two KBs, the search of the
\* first of which raised.
C13_Witness ==
    /\ query.mode = "multi"
    /\ Len(query.retrieved) = 2
    /\ query.retrieved[1].raised
    /\ query.result.status = "ok"
    /\ query.result.kbs = {query.kbs[2].name}

\* C14: a single-mode query (enabled, proper text) made while active_name is
\* empty or names no KB of the merged view fails with NO_ACTIVE_KB and starts
\* no similarity search.
C14_NoActiveKb ==
    (QueryRan /\ query.mode = "single"
        /\ (query.callKb = None \/ ~query.callKbKnown))
        => /\ query.pc = "idle"
           /\ query.result.status = "NO_ACTIVE_KB"
           /\ query.searches = 0
           /\ query.retrieved = <<>>

\* C14 witness: NO_ACTIVE_KB for an active_name that names no KB.
C14_Witness ==
    /\ QueryRan
    /\ query.mode = "single"
    /\ query.callKb # None
    /\ ~query.callKbKnown
    /\ query.result.status = "NO_ACTIVE_KB"

\* C15: a multi-mode query (enabled, proper text) fails with NO_KB_LOADED when
\* the merged view is empty, and otherwise starts one similarity search per
\* KB of the merged view.
C15_NoKbLoaded ==
    (QueryRan /\ query.mode = "multi")
        => IF query.callMerged = 0
           THEN /\ query.pc = "idle"
                /\ query.result.status = "NO_KB_LOADED"
                /\ query.searches = 0
           ELSE /\ query.result.status # "NO_KB_LOADED"
                /\ query.searches = query.callMerged
                /\ Len(query.kbs) = query.callMerged
                /\ query.pc = "idle" => Len(query.retrieved) = query.callMerged

\* C15 witness: NO_KB_LOADED on an empty merged view.
C15_Witness ==
    /\ QueryRan
    /\ query.mode = "multi"
    /\ query.callMerged = 0
    /\ query.result.status = "NO_KB_LOADED"

\* C16: a getStatus() that follows a successful switch_kb(n), no other call
\* having been made in between, reports active_name = n.
C16_StatusAfterSwitch ==
    (hist.status.after.op = "switch" /\ hist.status.after.ok)
        => hist.status.current = hist.status.after.name

\* The step is a call of op (switchKnowledgeBase or removeKnowledgeBase).
IsCallOf(op) == hist'.calls = hist.calls + 1 /\ hist'.lastOp.op = op

\* C17: switch_kb of a name that is in neither map fails with NOT_FOUND,
\* emits no event and leaves active_name, both maps with their active flags,
\* the state file and the state writes in flight unchanged.
C17_SwitchUnknownFails ==
    [][(IsCallOf("switch")
          /\ ~HasKnowledgeBase(userKnowledgeBases, systemKnowledgeBases,
                               hist'.lastOp.name))
          => /\ ~hist'.lastOp.ok
             /\ hist'.lastOp.error = "NOT_FOUND"
             /\ hist'.lastOp.events = <<>>
             /\ UNCHANGED <<currentKnowledgeBase, userKnowledgeBases,
                            systemKnowledgeBases, stateFile, pendingWrites>>]_vars

\* C17 witness: a failed switch_kb on an engine that has an active KB.
C17_Witness ==
    /\ hist.lastOp.op = "switch"
    /\ hist.lastOp.error = "NOT_FOUND"
    /\ currentKnowledgeBase # None
    /\ \E i \in 1..Len(listKnowledgeBases) : listKnowledgeBases[i].active

\* The entries of a map other than the one named are the same after the step.
OthersUnchanged(m, mNext, name) ==
    \A n \in Names \ {name} :
        /\ MapHas(mNext, n) <=> MapHas(m, n)
        /\ MapHas(m, n) => MapGet(mNext, n) = MapGet(m, n)

\* C20: remove_kb of a name of the merged view succeeds, emits exactly one
\* kb.removed, leaves the name out of the merged view, clears active_name
\* exactly when it was that name and leaves every other entry as it was;
\* remove_kb of a name in neither map fails with NOT_FOUND and changes
\* nothing.
C20_RemoveFrameEffect ==
    [][IsCallOf("remove")
          => LET name == hist'.lastOp.name
             IN IF HasKnowledgeBase(userKnowledgeBases, systemKnowledgeBases, name)
                THEN /\ hist'.lastOp.ok
                     /\ hist'.lastOp.events = <<"rag:knowledgeBaseRemoved">>
                     /\ ~HasKnowledgeBase(userKnowledgeBases', systemKnowledgeBases',
                                          name)
                     /\ currentKnowledgeBase' =
                           (IF currentKnowledgeBase = name THEN None
                            ELSE currentKnowledgeBase)
                     /\ OthersUnchanged(userKnowledgeBases, userKnowledgeBases', name)
                     /\ OthersUnchanged(systemKnowledgeBases, systemKnowledgeBases',
                                        name)
                ELSE /\ ~hist'.lastOp.ok
                     /\ hist'.lastOp.error = "NOT_FOUND"
                     /\ hist'.lastOp.events = <<>>
                     /\ UNCHANGED <<currentKnowledgeBase, userKnowledgeBases,
                                    systemKnowledgeBases, stateFile,
                                    pendingWrites>>]_vars

\* The step is one of addKnowledgeBase call i.
IsStepOfAdd(i) == adds'[i] # adds[i]

\* Call i repeats the call before it and no other call has been made since
\* call i was made.
IsRepeatInSequence(i) ==
    adds'[i].repeats /\ hist'.lastOp.op = "add" /\ hist'.lastOp.id = i

\* C18: an add_kb call that repeats, with the same path, the call that
\* succeeded just before it (no other call being made meanwhile, the file
\* being there still) fails with ALREADY_EXISTS, emits no kb.added, and none
\* of its steps changes the maps, the stored index or active_name.
C18_SecondAddChangesNothing ==
    [][\A i \in AddIds :
          (IsStepOfAdd(i) /\ IsRepeatInSequence(i))
             => /\ UNCHANGED <<userKnowledgeBases, systemKnowledgeBases,
                               currentKnowledgeBase>>
                /\ adds'[i].pc \in {"access", "done"}
                /\ adds'[i].events = <<>> /\ ~adds'[i].emitted
                /\ adds'[i].pc = "done" => adds'[i].result \in {"exists", "NO_FILE"}]_vars

\* C18 witness: the repeated call has returned ALREADY_EXISTS and the index
\* stored under the name is the one of the first call.
C18_Witness ==
    \E i \in AddIds, j \in AddIds :
        /\ adds[i].repeats
        /\ hist.lastOp.op = "add" /\ hist.lastOp.id = i
        /\ adds[i].result = "exists"
        /\ adds[j].result = "ok"
        /\ MapHas(userKnowledgeBases, adds[i].name)
        /\ MapGet(userKnowledgeBases, adds[i].name).store
              = fromDocuments(UserStore(j, adds[i].name), AppDimension)
        /\ MapGet(userKnowledgeBases, adds[i].name).path = UserPath(adds[i].dir, adds[i].name)

\* The step stores the entry of addKnowledgeBase call i.
IsCommitOfAdd(i) ==
    adds[i].pc = "ingest" /\ adds'[i].pc \in {"switchSave", "save"}

\* The KB of call i is the active one after the step.
ActivatedByStep(i) ==
    /\ currentKnowledgeBase' = adds[i].name
    /\ MapGet(userKnowledgeBases', adds[i].name).active
    /\ adds'[i].pc = "switchSave"

NameOrder == <<"a", "b">>

NameRank(n) == CHOOSE i \in 1..Len(NameOrder) : NameOrder[i] = n

\* The number of documents of docs that come from KB n with score sc.
CountOf(docs, n, sc) ==
    Cardinality({i \in 1..Len(docs) :
                    docs[i].knowledgeBase = n /\ docs[i].score = sc})

\* The relevant chunks that the searches of the multi-mode query returned.
RetrievedRelevant ==
    flat([i \in 1..Len(query.retrieved) |->
            SearchOneKb(query.retrieved[i], query.kbs[i].name)])

\* C30: in a multi-mode result, documents of equal score are in the
\* lexicographic order of their KB names, and a document is kept by the
\* truncation only if every retrieved relevant chunk of the same score from
\* a KB with a smaller name is kept too, whatever the insertion order of the
\* KBs in the registry.
C30_TiesInNameOrder ==
    (query.mode = "multi" /\ query.result.status = "ok") =>
        LET docs == query.result.documents
        IN /\ \A i \in 1..(Len(docs) - 1) :
                 docs[i].score = docs[i + 1].score
                    => NameRank(docs[i].knowledgeBase)
                          <= NameRank(docs[i + 1].knowledgeBase)
           /\ \A i \in 1..Len(docs) : \A n \in Names :
                 NameRank(n) < NameRank(docs[i].knowledgeBase)
                    => CountOf(docs, n, docs[i].score)
                          = CountOf(RetrievedRelevant, n, docs[i].score)

\* The step is the one in which the loader, all ingestions settled, decides
\* on the auto-activation.
IsLoaderDecision == loader.pc = "tasks" /\ loader'.pc # "tasks"

\* The smallest of a non-empty set of names.
SmallestName(S) == CHOOSE n \in S : \A m \in S : NameRank(n) <= NameRank(m)

\* C22: when the loader has settled all ingestions and the merged view,
\* empty before the load (every KB in it was ingested by this load), is not
\* empty, the active KB after the step is the one with the
\* lexicographically smallest name.
C22_SmallestNameActivated ==
    [][LET merged == _getMergedKnowledgeBases(userKnowledgeBases',
                                              systemKnowledgeBases')
       IN (/\ IsLoaderDecision
           /\ Len(merged) > 0
           /\ \A n \in MapKeys(merged) : loader.tasks[n] # "none")
             => currentKnowledgeBase' = SmallestName(MapKeys(merged))]_vars

\* The step ends a run of the loader that had started its per-file tasks.
IsEndOfTasks == loader.pc \in {"tasks", "switchSave"} /\ loader'.pc = "idle"

\* C23: a load whose per-file tasks have started ends only when every task
\* has settled, with the loaded flag set and the loading flag cleared, and
\* with every file whose ingestion succeeded in system_kbs, also when the
\* ingestion of another file failed.
C23_FailedFileDoesNotAbort ==
    [][IsEndOfTasks
          => /\ _systemKnowledgeBasesLoaded'
             /\ ~_loadingSystemKnowledgeBases'
             /\ \A n \in Names :
                   /\ loader.tasks[n] # "pending"
                   /\ loader.tasks[n] = "stored" => MapHas(systemKnowledgeBases', n)]_vars

\* C23 witness: a completed load of a directory with two files, of which one
\* failed to ingest and the other is in system_kbs.
C23_Witness ==
    /\ kbDir.files = Names
    /\ hist.completed = 1
    /\ _systemKnowledgeBasesLoaded /\ ~_loadingSystemKnowledgeBases
    /\ userKnowledgeBases = <<>>
    /\ Len(systemKnowledgeBases) = 1

\* The step is a removeKnowledgeBase call for the name that the latest call,
\* an addKnowledgeBase that has returned success, added; the state file was
\* loaded before the first call.
IsRemoveAfterAdd ==
    /\ hist.lastOp.op = "add" /\ hist.lastOp.ok
    /\ adds[hist.lastOp.id].pc = "done"
    /\ IsCallOf("remove")
    /\ hist'.lastOp.name = hist.lastOp.name
    /\ ~hist.loadRaced

\* C21: add_kb(p) followed by remove_kb(basename(p)) leaves the name in
\* neither map and active_name as it was when add_kb was called.
C21_AddThenRemoveRestores ==
    [][IsRemoveAfterAdd
          => /\ hist'.lastOp.ok
             /\ ~MapHas(userKnowledgeBases', hist.lastOp.name)
             /\ ~MapHas(systemKnowledgeBases', hist.lastOp.name)
             /\ currentKnowledgeBase' = hist.lastOp.cur]_vars

\* The three persisted fields as they are in memory now.
Memory == MemoryOf(_enabled, hist.enabledType, _mode, currentKnowledgeBase)

\* The step ends the process.
IsCrash == hist'.crashes = hist.crashes + 1

\* C24: when the process ends during a save, the state file, which held a
\* complete document before, holds that document or the complete document
\* of a save that was in flight.
C24_CrashLeavesWholeDocument ==
    [][(IsCrash /\ InFlight # {} /\ stateFile.complete)
          => /\ stateFile' \in {stateFile} \cup InFlight
             /\ stateFile'.complete]_vars

\* The new process has loaded the state file and no call has been made in
\* it.
FreshlyLoaded ==
    hist.crashes = 1 /\ loadStatePc = "done" /\ hist.calls = hist.crash.calls

C26_TypedEngineState ==
    hist.enabledType = "boolean" /\ _mode \in Modes

\* A processMessage call with an empty or whitespace-only text has returned.
BlankQueryReturned ==
    query.pc = "idle" /\ query.result.status # "none" /\ Trim(query.text) = ""

\* C27: a query with an empty or whitespace-only text fails with
\* INVALID_ARGUMENT, also on a disabled engine, and starts no similarity
\* search; a set_mode call whose argument is neither single nor multi fails
\* with INVALID_ARGUMENT, emits no event and leaves the mode, the enabled
\* flag, the loader, the state file and the state writes in flight
\* unchanged.
C27_InvalidArgumentsRejected ==
    /\ [](/\ BlankQueryReturned
             => /\ query.result.status = "INVALID_ARGUMENT"
                /\ query.searches = 0
                /\ query.retrieved = <<>>
          /\ query.pc # "idle" => Trim(query.text) # "")
    /\ [][(IsCallOf("set_mode") /\ hist'.lastOp.name \notin Modes)
             => /\ ~hist'.lastOp.ok
                /\ hist'.lastOp.error = "INVALID_ARGUMENT"
                /\ hist'.lastOp.events = <<>>
                /\ UNCHANGED <<_mode, _enabled, stateFile, pendingWrites, loader,
                               _loadingSystemKnowledgeBases>>]_vars

\* C27 witness: on a disabled engine a query with a blank text has failed
\* with INVALID_ARGUMENT, and the latest call, a set_mode with an argument
\* that is no mode, has failed with INVALID_ARGUMENT.
C27_Witness ==
    /\ BlankQueryReturned
    /\ ~query.enabled
    /\ query.result.status = "INVALID_ARGUMENT"
    /\ hist.lastOp.op = "set_mode"
    /\ hist.lastOp.name \notin Modes
    /\ hist.lastOp.error = "INVALID_ARGUMENT"

\* The ids of the listeners of an array, in its order.
IdsOf(listeners) == [k \in 1..Len(listeners) |-> listeners[k].id]

C28_SameOrderForEveryListener ==
    hist.listening => hist.logs[1] = hist.logs[2]

\* The entry at position i of the list is a user KB.
IsUserListed(i) == MapHas(userKnowledgeBases, listKnowledgeBases[i].name)

\* C31: listKnowledgeBases() returns the entries that are only system KBs
\* first, in the lexicographic order of their names, then the user KBs, in
\* the lexicographic order of their names, whatever the order in which the
\* KBs were loaded or added; an entry whose name is in both maps is the user
\* entry.
C31_ListOrdered ==
    LET list == listKnowledgeBases
    IN /\ \A i \in 1..(Len(list) - 1) :
             /\ IsUserListed(i) => IsUserListed(i + 1)
             /\ (IsUserListed(i) = IsUserListed(i + 1))
                   => NameRank(list[i].name) < NameRank(list[i + 1].name)
       /\ \A i \in 1..Len(list) :
             IsUserListed(i)
                => list[i].path = MapGet(userKnowledgeBases, list[i].name).path

\* Twice the normalized similarity (1 + cos) / 2 of a cosine, in tenths.
TwiceNormalized(cos) == 10 + cos

\* The normalized similarity of the cosine reaches min_relevance_score.
NormalizedReaches(cos) == TwiceNormalized(cos) >= 2 * minRelevanceScore

\* C32: the documents of a single-mode query whose search has settled are
\* the retrieved chunks whose normalized similarity (1 + cos) / 2 reaches
\* min_relevance_score, each with that normalized similarity as its score:
\* a chunk whose cosine is below the threshold and whose normalized
\* similarity is not is returned.
C32_ScoreIsNormalizedSimilarity ==
    (/\ QueryRan
     /\ query.mode = "single"
     /\ Len(query.retrieved) = 1
     /\ ~query.retrieved[1].raised)
       => LET passing == SelectSeq(query.retrieved[1].scores, NormalizedReaches)
              docs == query.result.documents
          IN /\ Len(docs) = Len(passing)
             /\ \A i \in 1..Len(docs) :
                   2 * docs[i].score = TwiceNormalized(passing[i])

\* The min_relevance_score in effect for the options the engine was
\* constructed with: the configured score, and 0.7 when none is configured.
DocumentedMinRelevance(option) == IF option.given THEN option.value ELSE 7

\* C33: the scores of the documents of a single-mode query whose search has
\* settled are the scores of the retrieved chunks that reach the
\* min_relevance_score in effect, which is the configured score (0 included)
\* and 0.7 when none is configured.
C33_EffectiveMinRelevance ==
    (/\ QueryRan
     /\ query.mode = "single"
     /\ Len(query.retrieved) = 1
     /\ ~query.retrieved[1].raised)
       => LET reaches(score) == score >= DocumentedMinRelevance(hist.option)
              passing == SelectSeq(query.retrieved[1].scores, reaches)
              docs == query.result.documents
          IN /\ Len(docs) = Len(passing)
             /\ \A i \in 1..Len(docs) : docs[i].score = passing[i]

\* C34: every KB of the registry has embeddings of the dimension pinned at
\* the first successful call of the embedder: an ingestion for which the
\* embedder returns vectors of another dimension stores no KB.
C34_OneDimension ==
    \A m \in {userKnowledgeBases, systemKnowledgeBases} :
        \A i \in 1..Len(m) : m[i].store.dim = hist.pinned

\* The step is the end of the state load that the constructor started.
IsStateLoad == loadStatePc = "reading" /\ loadStatePc' = "done"

\* C35: once a setter, switchKnowledgeBase or addKnowledgeBase has changed
\* the state of a newly constructed engine, the end of the constructor's
\* state load changes none of enabled, mode and the active name, however
\* the load and the calls interleave.
C35_LoadNeverOverwrites ==
    [][(IsStateLoad /\ hist.mutated)
          => UNCHANGED <<_enabled, _mode, currentKnowledgeBase>>]_vars

\* The step is the one in which addKnowledgeBase call i returns a failure.
IsFailureOfAdd(i) ==
    adds[i].pc # "done" /\ adds'[i].pc = "done" /\ adds'[i].result # "ok"

\* C36: a switchKnowledgeBase or removeKnowledgeBase call that returns a
\* failure leaves both maps, with the active flags, and the active name as
\* they were, and when an addKnowledgeBase call returns a failure no entry
\* that it stored is in the registry; also when the failure comes from a
\* listener that raises during the emit of the call.
C36_FailureChangesNothing ==
    [][/\ ((IsCallOf("switch") \/ IsCallOf("remove")) /\ ~hist'.lastOp.ok)
             => UNCHANGED <<userKnowledgeBases, systemKnowledgeBases,
                            currentKnowledgeBase>>
       /\ \A i \in AddIds :
             IsFailureOfAdd(i)
                => \A k \in 1..Len(userKnowledgeBases') :
                      userKnowledgeBases'[k].store.task # i]_vars

\* C37: among the events that an addKnowledgeBase call emits for its KB,
\* rag:knowledgeBaseAdded comes before rag:knowledgeBaseSwitched: the
\* listeners learn of a KB that is activated when it is added before they
\* learn of its activation.
C37_AddedBeforeSwitched ==
    \A i \in AddIds :
        LET events == adds[i].events
        IN \A j, k \in 1..Len(events) :
              (/\ events[j] = "rag:knowledgeBaseAdded"
               /\ events[k] = "rag:knowledgeBaseSwitched") => j < k

\* The step is a call of getStatus() or getKnowledgeBaseStatus().
IsStatusCall == hist'.calls = hist.calls + 1 /\ hist'.status.current # None

\* C38: a status call changes none of enabled, mode, the active name and
\* the two maps, and the active name it reports is the one held in memory
\* just before the call.
C38_StatusReadOnly ==
    [][IsStatusCall
          => /\ UNCHANGED <<_enabled, _mode, currentKnowledgeBase,
                            userKnowledgeBases, systemKnowledgeBases>>
             /\ hist'.status.current = Reported(currentKnowledgeBase)]_vars

\* C39: an emit calls every listener that was in the array when emit was
\* called, exactly once and in the order of the array, also when listeners
\* registered with once() take themselves out of the array during the emit.
C39_EmitCallsEveryRegistered ==
    LET em == hist.emitter
    IN em.emits > 0 => em.invoked = IdsOf(em.registered)
====
